---- MODULE Spec2Model ----
(***************************************************************************)
(* CompareDoc (src/app.py): segment_document, which cuts a text into       *)
(* sections at heading lines, and compare_segments, which compares a       *)
(* filled document's sections with a template's, section by section, and   *)
(* asks an external oracle (a chat model) about the sections that neither  *)
(* are blank nor match exactly.                                            *)
(*                                                                         *)
(* Python strings are TLA+ strings; lists are sequences; a dict is a       *)
(* record [order, map]: the keys in insertion order and the key->value     *)
(* function.                                                               *)
(***************************************************************************)
EXTENDS Integers, Sequences, FiniteSets, TLC

VARIABLES
    pc,               \* where the run is: "segment", "compare", "oracle", "done", "failed"
    role,             \* which document segment_document is working on: "template" or "filled"
    text,             \* segment_document's argument
    filled_file,      \* the uploaded filled document: <<>> when none, else <<its text>>
    i,                \* lines of text already consumed by segment_document's loop
    current_section,  \* segment_document's current_section
    segments,         \* segment_document's segments (dict: key -> list of lines)
    template,         \* compare_segments' template (dict: key -> text)
    filled,           \* compare_segments' filled (dict: key -> text)
    j,                \* template items already consumed by compare_segments' loop
    comparison,       \* compare_segments' comparison (dict: key -> record)
    calls,            \* the oracle requests made so far, in order
    replies,          \* what the oracle answered to each request, in order
    report            \* what compare_segments returned, or NoReport

vars == <<pc, role, text, filled_file, i, current_section, segments,
          template, filled, j, comparison, calls, replies, report>>

(***************************************************************************)
(* Bounds of the model.                                                    *)
(***************************************************************************)
\* Longest text (in lines) handed to segment_document on its own.
MaxLines == 4
\* Most sections of a template handed to compare_segments on its own.
MaxSections == 2
\* Most lines of an oracle response.
MaxRespLines == 2

(***************************************************************************)
(* Strings.                                                                *)
(***************************************************************************)
Ch(s, k) == SubSeq(s, k, k)

Chars(s) == {Ch(s, k) : k \in 1..Len(s)}

UpperCase == "ABCDEFGHIJKLMNOPQRSTUVWXYZ"
LowerCase == "abcdefghijklmnopqrstuvwxyz"
Digits == "0123456789"
UpperChars == Chars(UpperCase)
LowerChars == Chars(LowerCase)
DigitChars == Chars(Digits)

\* The characters str.strip() removes and the regex class \s matches.
WhiteSpace == {" ", "\t", "\n", "\r", "\f"}

\* The least index from lo on of a character of s in the set C, the least
\* and the greatest index of a character of s not in C; 0 when there is none.
FirstIn(s, C, lo) ==
    IF \E k \in lo..Len(s) : Ch(s, k) \in C
    THEN CHOOSE k \in lo..Len(s) :
             Ch(s, k) \in C /\ \A m \in lo..(k - 1) : Ch(s, m) \notin C
    ELSE 0

FirstNotIn(s, C) ==
    IF \E k \in 1..Len(s) : Ch(s, k) \notin C
    THEN CHOOSE k \in 1..Len(s) :
             Ch(s, k) \notin C /\ \A m \in 1..(k - 1) : Ch(s, m) \in C
    ELSE 0

LastNotIn(s, C) ==
    IF \E k \in 1..Len(s) : Ch(s, k) \notin C
    THEN CHOOSE k \in 1..Len(s) :
             Ch(s, k) \notin C /\ \A m \in (k + 1)..Len(s) : Ch(s, m) \in C
    ELSE 0

\* str.lstrip()
LStrip(s) == IF FirstNotIn(s, WhiteSpace) = 0 THEN "" ELSE SubSeq(s, FirstNotIn(s, WhiteSpace), Len(s))

\* str.strip()
Strip(s) ==
    IF FirstNotIn(s, WhiteSpace) = 0 THEN ""
    ELSE SubSeq(s, FirstNotIn(s, WhiteSpace), LastNotIn(s, WhiteSpace))

\* str.splitlines(): the lines of s, cut at \n, \r\n and \r, the line ends
\* removed; no empty last line after a final line end.
RECURSIVE SplitFrom(_, _)
SplitFrom(s, start) ==
    LET k == FirstIn(s, {"\n", "\r"}, start)
    IN  IF start > Len(s) THEN <<>>
        ELSE IF k = 0 THEN <<SubSeq(s, start, Len(s))>>
        ELSE IF Ch(s, k) = "\r" /\ k < Len(s) /\ Ch(s, k + 1) = "\n"
        THEN <<SubSeq(s, start, k - 1)>> \o SplitFrom(s, k + 2)
        ELSE <<SubSeq(s, start, k - 1)>> \o SplitFrom(s, k + 1)

splitlines(s) == SplitFrom(s, 1)

\* "\n".join(v)
RECURSIVE JoinNL(_)
JoinNL(v) ==
    IF Len(v) = 0 THEN ""
    ELSE IF Len(v) = 1 THEN v[1]
    ELSE v[1] \o "\n" \o JoinNL(Tail(v))

\* str.lower()
LowerCh(c) ==
    IF c \in UpperChars
    THEN Ch(LowerCase, CHOOSE k \in 1..Len(UpperCase) : Ch(UpperCase, k) = c)
    ELSE c

RECURSIVE lower(_)
lower(s) ==
    IF Len(s) = 0 THEN ""
    ELSE LowerCh(Ch(s, 1)) \o lower(SubSeq(s, 2, Len(s)))

\* str.startswith(p)
startswith(s, p) == Len(s) >= Len(p) /\ SubSeq(s, 1, Len(p)) = p

\* line.split(":", 1)[1]: what follows the first colon of a line that has one.
AfterColon(s) == SubSeq(s, FirstIn(s, {":"}, 1) + 1, Len(s))

\* str.replace('%', '')
RECURSIVE RemovePercent(_)
RemovePercent(s) ==
    IF Len(s) = 0 THEN ""
    ELSE (IF Ch(s, 1) = "%" THEN "" ELSE Ch(s, 1)) \o RemovePercent(SubSeq(s, 2, Len(s)))

DigitValue(c) == (CHOOSE k \in 1..Len(Digits) : Ch(Digits, k) = c) - 1

RECURSIVE DigitsValue(_, _)
DigitsValue(s, acc) ==
    IF Len(s) = 0 THEN acc
    ELSE IF Ch(s, 1) = "_" THEN DigitsValue(SubSeq(s, 2, Len(s)), acc)
    ELSE DigitsValue(SubSeq(s, 2, Len(s)), 10 * acc + DigitValue(Ch(s, 1)))

\* The literals int() accepts: digits, single underscores between them.
IsIntBody(s) ==
    /\ Len(s) > 0
    /\ Ch(s, 1) \in DigitChars
    /\ Ch(s, Len(s)) \in DigitChars
    /\ \A k \in 1..Len(s) : Ch(s, k) \in DigitChars \cup {"_"}
    /\ \A k \in 1..(Len(s) - 1) : ~(Ch(s, k) = "_" /\ Ch(s, k + 1) = "_")

\* int(s): surrounding whitespace and one sign allowed; ok = FALSE is ValueError.
int(s) ==
    LET t == Strip(s)
        signed == Len(t) > 0 /\ Ch(t, 1) \in {"+", "-"}
        body == IF signed THEN SubSeq(t, 2, Len(t)) ELSE t
    IN  IF IsIntBody(body)
        THEN [ok |-> TRUE,
              val |-> IF signed /\ Ch(t, 1) = "-"
                      THEN 0 - DigitsValue(body, 0)
                      ELSE DigitsValue(body, 0)]
        ELSE [ok |-> FALSE, val |-> 0]

(***************************************************************************)
(* Dicts: insertion-ordered, a key assigned again keeps its place.         *)
(***************************************************************************)
EmptyDict == [order |-> <<>>, map |-> <<>>]

Keys(d) == {d.order[k] : k \in 1..Len(d.order)}

DictSet(d, key, val) ==
    [order |-> IF key \in Keys(d) THEN d.order ELSE Append(d.order, key),
     map |-> [x \in Keys(d) \cup {key} |-> IF x = key THEN val ELSE d.map[x]]]

\* dict.get(key, default)
DictGet(d, key, default) == IF key \in Keys(d) THEN d.map[key] ELSE default

Range(v) == {v[k] : k \in 1..Len(v)}

\* list(d.values())
Values(d) == [k \in 1..Len(d.order) |-> d.map[d.order[k]]]

NoReport == [none |-> "report"]

(***************************************************************************)
(* segment_document                                                        *)
(***************************************************************************)
\* re.match(r"^\s*\d+\.", s): blanks, then digits, then a period.
NumberedHeading(s) ==
    LET t == LStrip(s)
        n == IF FirstNotIn(t, DigitChars) = 0 THEN Len(t) ELSE FirstNotIn(t, DigitChars) - 1
    IN  n >= 1 /\ Len(t) > n /\ Ch(t, n + 1) = "."

\* re.match(r"^[A-Z][A-Za-z\s]+:$", s), for s without a line end: a capital,
\* one or more letters or blanks, a colon that ends s.
TitledHeading(s) ==
    /\ Len(s) >= 3
    /\ Ch(s, 1) \in UpperChars
    /\ Ch(s, Len(s)) = ":"
    /\ \A k \in 2..(Len(s) - 1) : Ch(s, k) \in UpperChars \cup LowerChars \cup WhiteSpace

\* The condition of the loop's if, on one line of the text.
IsHeading(line) == NumberedHeading(Strip(line)) \/ TitledHeading(Strip(line))

\* The state of segment_document before its loop, for the text t.
StartSegment(t) ==
    /\ text' = t
    /\ i' = 0
    /\ current_section' = "Header"
    /\ segments' = DictSet(EmptyDict, "Header", <<>>)

\* current_section after the loop body has run on line.
LineSection(line, cur) == IF IsHeading(line) THEN Strip(line) ELSE cur

\* ResetSection with a repeated heading appending to its section: the buffer
\* of a key the dict already holds is kept.
ResetSection_Keep(d, section) ==
    IF section \in Keys(d) THEN d ELSE DictSet(d, section, <<>>)

\* segments[current_section] = [] for a heading line.
ResetSection(d, section) == DictSet(d, section, <<>>)

\* LineSegments with the heading line left out of its own section.
LineSegments_DropHeading(line, cur, d) ==
    IF IsHeading(line)
    THEN DictSet(d, Strip(line), <<>>)
    ELSE DictSet(d, cur, Append(d.map[cur], line))

\* segments after the loop body has run on line.
LineSegments(line, cur, d) ==
    LET section == LineSection(line, cur)
        reset == IF IsHeading(line) THEN ResetSection(d, section) ELSE d
    IN  DictSet(reset, section, Append(reset.map[section], line))

\* One iteration of "for line in text.splitlines()".
SegLine ==
    /\ pc = "segment"
    /\ i < Len(splitlines(text))
    /\ current_section' = LineSection(splitlines(text)[i + 1], current_section)
    /\ segments' = LineSegments(splitlines(text)[i + 1], current_section, segments)
    /\ i' = i + 1
    /\ UNCHANGED <<pc, role, text, filled_file, template, filled, j, comparison,
                   calls, replies, report>>

\* Joined with the "Header" section left out when no line precedes the
\* first heading.
Joined_DropEmptyHeader(d) ==
    LET keep == SelectSeq(d.order, LAMBDA k : ~(k = "Header" /\ Len(d.map[k]) = 0))
    IN  [order |-> keep, map |-> [k \in Range(keep) |-> JoinNL(d.map[k])]]

\* The returned dict: {k: "\n".join(v) for k, v in segments.items()}
Joined(d) == [order |-> d.order, map |-> [k \in Keys(d) |-> JoinNL(d.map[k])]]

\* The loop is over: segment_document returns. The template's segmentation is
\* kept as the template (st.session_state.segment_data); with a filled file
\* uploaded, "Compare to Template" segments it and calls compare_segments.
SegReturn ==
    /\ pc = "segment"
    /\ i = Len(splitlines(text))
    /\ IF role = "template"
       THEN /\ template' = Joined(segments)
            /\ IF Len(filled_file) = 0
               THEN /\ pc' = "done"
                    /\ UNCHANGED <<role, text, i, current_section, segments>>
               ELSE /\ pc' = "segment"
                    /\ role' = "filled"
                    /\ StartSegment(filled_file[1])
            /\ UNCHANGED <<filled, j, comparison>>
       ELSE /\ filled' = Joined(segments)
            /\ pc' = "compare"
            /\ j' = 0
            /\ comparison' = EmptyDict
            /\ UNCHANGED <<role, text, i, current_section, segments, template>>
    /\ UNCHANGED <<filled_file, calls, replies, report>>

(***************************************************************************)
(* compare_segments                                                        *)
(***************************************************************************)
Record(content, filled_content, status, reason, remediation, match_percent) ==
    [template |-> content, filled |-> filled_content, status |-> status,
     analysis |-> reason, remediation |-> remediation, match_percent |-> match_percent]

\* The body of "for line in lines": the four fields after one response line.
ParseLine(f, line) ==
    IF startswith(lower(line), "status:")
    THEN [f EXCEPT !.status = Strip(AfterColon(line))]
    ELSE IF startswith(lower(line), "reason:")
    THEN [f EXCEPT !.reason = Strip(AfterColon(line))]
    ELSE IF startswith(lower(line), "remediation:")
    THEN [f EXCEPT !.remediation = Strip(AfterColon(line))]
    ELSE IF startswith(lower(line), "match percentage:")
    THEN [f EXCEPT !.match_percent =
              LET n == int(RemovePercent(Strip(AfterColon(line))))
              IN  IF n.ok THEN n.val ELSE 0]
    ELSE f

\* ParseLines with the first line of each prefix winning: the lines are
\* applied last to first.
RECURSIVE ParseLines_FirstWins(_, _)
ParseLines_FirstWins(f, lines) ==
    IF Len(lines) = 0 THEN f
    ELSE ParseLine(ParseLines_FirstWins(f, Tail(lines)), Head(lines))

\* "for line in lines", from the fields f.
RECURSIVE ParseLines(_, _)
ParseLines(f, lines) ==
    IF Len(lines) = 0 THEN f
    ELSE ParseLines(ParseLine(f, Head(lines)), Tail(lines))

\* The fields compare_segments reads out of the oracle's response.
ParseResponse(analysis_full) ==
    LET f == ParseLines([status |-> "Other Issue", reason |-> "", remediation |-> "",
                         match_percent |-> 0],
                        splitlines(analysis_full))
    IN  IF f.remediation = "" THEN [f EXCEPT !.remediation = "None provided."] ELSE f

\* IsBlank and IsExact without the trimming.
IsBlank_NoTrim(filled_content) == filled_content = ""
IsExact_NoTrim(content, filled_content) == filled_content = content

\* The first two branches of the loop body: a blank filled section, an exact match.
IsBlank(filled_content) == Strip(filled_content) = ""
IsExact(content, filled_content) == Strip(filled_content) = Strip(content)

\* One iteration of "for section, content in template.items()", up to the
\* record of a blank or matching section or to the oracle request.
CmpSection ==
    /\ pc = "compare"
    /\ j < Len(template.order)
    /\ LET section == template.order[j + 1]
           content == template.map[section]
           filled_content == DictGet(filled, section, "")
       IN  IF IsBlank(filled_content)
           THEN /\ comparison' = DictSet(comparison, section,
                        Record(content, filled_content, "Missing",
                               "This section is missing in the filled document.",
                               "Please provide content for this section.", 0))
                /\ j' = j + 1
                /\ UNCHANGED <<pc, calls>>
           ELSE IF IsExact(content, filled_content)
           THEN /\ comparison' = DictSet(comparison, section,
                        Record(content, filled_content, "Sufficient",
                               "This section is sufficiently filled and matches the template.",
                               "None needed.", 100))
                /\ j' = j + 1
                /\ UNCHANGED <<pc, calls>>
           ELSE /\ pc' = "oracle"
                /\ calls' = Append(calls, [section |-> section, template |-> content,
                                           filled |-> filled_content])
                /\ UNCHANGED <<comparison, j>>
    /\ UNCHANGED <<role, text, filled_file, i, current_section, segments,
                   template, filled, replies, report>>

\* client.chat.completions.create returns analysis_full, one of the responses
\* R: the rest of the iteration parses it and records the section.
OracleReply(R) ==
    /\ pc = "oracle"
    /\ \E analysis_full \in R :
           LET section == template.order[j + 1]
               f == ParseResponse(analysis_full)
           IN  /\ comparison' = DictSet(comparison, section,
                       Record(template.map[section], DictGet(filled, section, ""),
                              f.status, f.reason, f.remediation, f.match_percent))
               /\ replies' = Append(replies, [ok |-> TRUE, content |-> analysis_full])
    /\ j' = j + 1
    /\ pc' = "compare"
    /\ UNCHANGED <<role, text, filled_file, i, current_section, segments,
                   template, filled, calls, report>>

\* OracleFail with the failure contained: the section is recorded as
\* "Other Issue" and the loop goes on.
OracleFail_Contained ==
    /\ pc = "oracle"
    /\ replies' = Append(replies, [ok |-> FALSE])
    /\ comparison' = DictSet(comparison, template.order[j + 1],
           Record(template.map[template.order[j + 1]],
                  DictGet(filled, template.order[j + 1], ""),
                  "Other Issue", "The oracle was unreachable.", "None provided.", 0))
    /\ j' = j + 1
    /\ pc' = "compare"
    /\ UNCHANGED <<role, text, filled_file, i, current_section, segments,
                   template, filled, calls, report>>

\* client.chat.completions.create raises (network or service error): nothing
\* in compare_segments catches it, the call ends without a return value and
\* its local comparison is gone.
OracleFail ==
    /\ pc = "oracle"
    /\ replies' = Append(replies, [ok |-> FALSE])
    /\ pc' = "failed"
    /\ comparison' = EmptyDict
    /\ UNCHANGED <<role, text, filled_file, i, current_section, segments,
                   template, filled, j, calls, report>>

\* return comparison
CmpReturn ==
    /\ pc = "compare"
    /\ j = Len(template.order)
    /\ report' = comparison
    /\ pc' = "done"
    /\ UNCHANGED <<role, text, filled_file, i, current_section, segments,
                   template, filled, j, comparison, calls, replies>>

(***************************************************************************)
(* Inputs.                                                                 *)
(***************************************************************************)
BoundedSeq(S, n) == UNION {[1..m -> S] : m \in 0..n}

\* Lines of the texts segmented on their own: numbered headings (one with
\* leading blanks, same trimmed text), a titled heading, "A:" (too short
\* for the titled pattern), a body line, an empty line.
SegLineSet == {"1.", " 1.", "Ab:", "A:", "x", ""}

\* Every text of at most MaxLines such lines, and three with \r\n and \r line ends.
SegTexts ==
    {JoinNL(v) : v \in BoundedSeq(SegLineSet, MaxLines)}
        \cup {"x\r\n1.\r\ny", "1.\rx\r1.", "Ab:\r\n"}

\* Section names and texts of the dicts compared on their own: a template
\* text is empty or "a" between blanks, a filled text blank, "a" or "b".
SectionNames == <<"Header", "1. Scope:", "2. Budget:", "3. Terms:", "4. Notes:">>
TemplateTexts == {"", " a\n"}
FilledTexts == {" ", "a", "b"}

Reverse(v) == [k \in 1..Len(v) |-> v[Len(v) + 1 - k]]

\* The templates of at most MaxSections sections, their keys in the order
\* of SectionNames or in the opposite order.
TemplateDicts ==
    UNION {{[order |-> o, map |-> m] : m \in [Range(o) -> TemplateTexts]} :
              o \in UNION {{SubSeq(SectionNames, 1, n), Reverse(SubSeq(SectionNames, 1, n))} :
                              n \in 0..MaxSections}}

\* The filled dicts that hold some of the template t's sections.
FilledDicts(t) ==
    UNION {{[order |-> SelectSeq(SectionNames, LAMBDA k : k \in K), map |-> m] :
               m \in [K -> FilledTexts]} : K \in SUBSET Keys(t)}

\* What the stub oracle answers in the runs that vary the documents.
CannedResponses ==
    {"Status: Sufficient\nReason: Same meaning.\nRemediation: None needed\nMatch Percentage: 85%",
     "Status: Lacking Information\nReason: Too short.\nRemediation: Add detail.\nMatch Percentage: 40",
     "Status: Other Issue\nReason: Off topic.",
     "I cannot compare these."}

\* Lines of the responses in the runs that vary the oracle's response.
RespLineSet ==
    {"Status: Sufficient", "status: Lacking Information", "Status: Partial",
     "Status: Missing", "Reason: Too short.", "Remediation: Add detail.",
     "Remediation:", "Match Percentage: 85%", "Match Percentage: 150",
     "MATCH PERCENTAGE: -5", "Match Percentage: n/a", "Here is my answer"}

Responses == {JoinNL(v) : v \in BoundedSeq(RespLineSet, MaxRespLines)}

\* The documents of the runs that vary the oracle's response: a template of
\* three sections, the filled document blank in the first, different from
\* the template in one of the other two and identical in the other.
OracleTemplate ==
    DictSet(DictSet(DictSet(EmptyDict, "Header", ""),
                    "1. Scope:", "1. Scope:\nDescribe the work."),
            "2. Budget:", "2. Budget:\nState the amount.")
OracleFilleds ==
    {DictSet(DictSet(EmptyDict, "1. Scope:", "1. Scope:\nWe do it."),
             "2. Budget:", "2. Budget:\nState the amount."),
     DictSet(DictSet(EmptyDict, "1. Scope:", "1. Scope:\nDescribe the work."),
             "2. Budget:", "2. Budget:")}

\* The end-to-end scenario's template text and filled texts: identical for
\* "1. Scope:" and without "2. Budget:", or with that heading and nothing or
\* blanks under it, or differing, or with a section of their own.
TemplateE2E == "1. Scope:\nDescribe the work.\n2. Budget:\nState the amount."
FilledNoBudget == "1. Scope:\nDescribe the work."
FilledBudgetHeading == "1. Scope:\nDescribe the work.\n2. Budget:\n   "
FilledE2E ==
    {FilledNoBudget, FilledBudgetHeading,
     "1. Scope:\nDescribe the work.\n2. Budget:",
     "1. Scope:\nDescribe the work.\n2. Budget:\nState the amount.",
     "Dear Sir\n1. Scope:\nWe do it.\n3. Terms:\nNone.",
     ""}

(***************************************************************************)
(* Specifications.                                                         *)
(***************************************************************************)
\* segment_document is entered with the text t.
InitSegment(t) ==
    /\ pc = "segment"
    /\ role = "template"
    /\ text = t
    /\ i = 0
    /\ current_section = "Header"
    /\ segments = DictSet(EmptyDict, "Header", <<>>)
    /\ template = EmptyDict
    /\ filled = EmptyDict
    /\ j = 0
    /\ comparison = EmptyDict
    /\ calls = <<>>
    /\ replies = <<>>
    /\ report = NoReport

\* compare_segments is entered with the dicts t and f.
InitCompare(t, f) ==
    /\ pc = "compare"
    /\ role = "filled"
    /\ text = ""
    /\ filled_file = <<>>
    /\ i = 0
    /\ current_section = "Header"
    /\ segments = DictSet(EmptyDict, "Header", <<>>)
    /\ template = t
    /\ filled = f
    /\ j = 0
    /\ comparison = EmptyDict
    /\ calls = <<>>
    /\ replies = <<>>
    /\ report = NoReport

\* The whole tool: the template text is segmented, then the filled text, then
\* the two are compared.
Init ==
    /\ InitSegment(TemplateE2E)
    /\ filled_file \in {<<f>> : f \in FilledE2E}

Next ==
    \/ SegLine
    \/ SegReturn
    \/ CmpSection
    \/ OracleReply(CannedResponses)
    \/ OracleFail
    \/ CmpReturn

Spec == Init /\ [][Next]_vars

\* segment_document alone ("Segment Document", no filled file), on every text.
InitSeg ==
    /\ filled_file = <<>>
    /\ \E t \in SegTexts : InitSegment(t)

NextSeg ==
    \/ SegLine
    \/ SegReturn

SpecSeg == InitSeg /\ [][NextSeg]_vars

\* compare_segments alone, on every pair of dicts, the oracle a stub.
InitCmp == \E t \in TemplateDicts : \E f \in FilledDicts(t) : InitCompare(t, f)

NextCmp ==
    \/ CmpSection
    \/ OracleReply(CannedResponses)
    \/ OracleFail
    \/ CmpReturn

SpecCmp == InitCmp /\ [][NextCmp]_vars

\* compare_segments alone, on every response of the oracle.
InitOracle == \E f \in OracleFilleds : InitCompare(OracleTemplate, f)

NextOracle ==
    \/ CmpSection
    \/ OracleReply(Responses)
    \/ OracleFail
    \/ CmpReturn

SpecOracle == InitOracle /\ [][NextOracle]_vars

(***************************************************************************)
(* Properties of segment_document (SpecSeg).                               *)
(***************************************************************************)
\* The lines of the text being segmented and the places of its heading lines.
Lines == splitlines(text)
HeadingAt == {k \in 1..Len(Lines) : IsHeading(Lines[k])}
RepeatedHeading ==
    \E a, b \in HeadingAt : a < b /\ Strip(Lines[a]) = Strip(Lines[b])

\* segment_document has returned (its result is template, its buffers segments).
SegDone == pc = "done" /\ role = "template"

RECURSIVE Flatten(_)
Flatten(v) == IF Len(v) = 0 THEN <<>> ELSE Head(v) \o Flatten(Tail(v))

\* C1 as stated: for every text, the values of the returned map joined with
\* newlines, in key order, are the lines of the text in their order.
C1_EveryLineOnce == SegDone => JoinNL(Values(template)) = JoinNL(Lines)

\* C1 amended: for every text in which no two heading lines have the same
\* trimmed text, the sections' line buffers, in key order, hold the lines of
\* the text, each once and in order, and the values of the returned map joined
\* with newlines are the lines of the text, after one empty line (the empty
\* "Header" section) when the text's first line is a heading line.
C1_EveryLineOnceDistinct ==
    (SegDone /\ ~RepeatedHeading) =>
        /\ Flatten(Values(segments)) = Lines
        /\ JoinNL(Values(template)) = (IF 1 \in HeadingAt THEN "\n" ELSE "") \o JoinNL(Lines)

\* A text with a preamble and two differently named sections was segmented.
C1_Witness ==
    /\ SegDone
    /\ ~RepeatedHeading
    /\ Len(template.order) >= 3
    /\ Len(segments.map["Header"]) > 0

\* The last heading line with the trimmed text key; the last line of the
\* section that starts at line h (h = 0: the lines before any heading).
LastAt(key) ==
    CHOOSE h \in HeadingAt :
        /\ Strip(Lines[h]) = key
        /\ \A k \in HeadingAt : Strip(Lines[k]) = key => k <= h
SectionEnd(h) ==
    IF \E k \in HeadingAt : k > h
    THEN (CHOOSE k \in HeadingAt : k > h /\ \A m \in HeadingAt : m > h => k <= m) - 1
    ELSE Len(Lines)
Expected(key) ==
    IF key = "Header" THEN SubSeq(Lines, 1, SectionEnd(0))
    ELSE SubSeq(Lines, LastAt(key), SectionEnd(LastAt(key)))

\* C8: in a text where two heading lines have the same trimmed text, every
\* section holds exactly the lines from the last heading line with its key
\* to the line before the next heading line (or the end of the text), so the
\* lines under an earlier heading line of a repeated key are in no section.
C8_LastHeadingWins ==
    (SegDone /\ RepeatedHeading) =>
        /\ Keys(template) = {"Header"} \cup {Strip(Lines[h]) : h \in HeadingAt}
        /\ \A key \in Keys(template) :
               /\ segments.map[key] = Expected(key)
               /\ template.map[key] = JoinNL(Expected(key))

\* A text with a repeated heading, lines under both occurrences.
C8_Witness ==
    /\ SegDone
    /\ \E a, b \in HeadingAt :
           /\ a < b
           /\ Strip(Lines[a]) = Strip(Lines[b])
           /\ SectionEnd(a) > a
           /\ SectionEnd(b) > b

(***************************************************************************)
(* Properties of compare_segments (SpecCmp, SpecOracle).                   *)
(***************************************************************************)
\* The sections compare_segments holds a record of, and their records.
Recorded == IF pc = "failed" THEN {} ELSE {template.order[k] : k \in 1..j}
Rec(section) == comparison.map[section]
FilledOf(section) == DictGet(filled, section, "")
CalledFor(section) == \E k \in 1..Len(calls) : calls[k].section = section

\* C2 as stated: a section whose filled text equals the template text after
\* trimming, whatever that text is, is recorded Sufficient with 100 and the
\* oracle is not asked about it.
C2_ExactWhatever ==
    \A section \in Recorded :
        Strip(FilledOf(section)) = Strip(template.map[section]) =>
            /\ Rec(section).status = "Sufficient"
            /\ Rec(section).match_percent = 100
            /\ ~CalledFor(section)

\* C2 amended: a section whose filled text equals the template text after
\* trimming and is not blank is recorded Sufficient with 100, in the report
\* too, and the oracle is not asked about it.
C2_ExactNonBlank ==
    /\ \A section \in Recorded :
           (/\ Strip(FilledOf(section)) = Strip(template.map[section])
            /\ Strip(FilledOf(section)) # "") =>
               /\ Rec(section).status = "Sufficient"
               /\ Rec(section).match_percent = 100
               /\ ~CalledFor(section)
    /\ pc = "done" => report = comparison

\* A section matching only after trimming was recorded and the report returned.
C2_Witness ==
    /\ pc = "done"
    /\ \E section \in Recorded :
           /\ Strip(FilledOf(section)) = Strip(template.map[section])
           /\ FilledOf(section) # template.map[section]
           /\ Rec(section).status = "Sufficient"

\* C3: a record's status is Missing exactly when its match_percent is 0 and
\* its filled text is blank.
C3_MissingIffBlank ==
    \A section \in Recorded :
        (Rec(section).status = "Missing") <=>
            (Rec(section).match_percent = 0 /\ Strip(Rec(section).filled) = "")

\* C4: every record's status is Missing, Sufficient, Lacking Information or
\* Other Issue.
C4_StatusVocabulary ==
    \A section \in Recorded :
        Rec(section).status \in {"Missing", "Sufficient", "Lacking Information", "Other Issue"}

\* C5: every record's match_percent is between 0 and 100.
C5_PercentRange ==
    \A section \in Recorded : Rec(section).match_percent \in 0..100

\* The sections that need the oracle, and how many sections the loop has
\* entered.
NeedsOracle(section) ==
    /\ Strip(FilledOf(section)) # ""
    /\ Strip(FilledOf(section)) # Strip(template.map[section])
Entered == IF pc \in {"oracle", "failed"} THEN j + 1 ELSE j

\* C6: the oracle requests made so far are, in order, one for each section
\* entered so far that is neither blank nor an exact match, with that
\* section's two texts; while a request is out no later section has a record
\* or a request, every earlier request is answered and every earlier section
\* recorded; the run returns after the last section.
C6_OneCallPerSectionInOrder ==
    /\ [k \in 1..Len(calls) |-> calls[k].section]
           = SelectSeq(SubSeq(template.order, 1, Entered), NeedsOracle)
    /\ \A k \in 1..Len(calls) :
           /\ calls[k].template = template.map[calls[k].section]
           /\ calls[k].filled = FilledOf(calls[k].section)
    /\ pc = "oracle" =>
           /\ Len(replies) = Len(calls) - 1
           /\ calls[Len(calls)].section = template.order[j + 1]
           /\ comparison.order = SubSeq(template.order, 1, j)
    /\ pc \in {"compare", "done"} =>
           /\ Len(replies) = Len(calls)
           /\ comparison.order = SubSeq(template.order, 1, j)
    /\ pc = "done" => j = Len(template.order)

\* A run returned after two requests.
C6_Witness ==
    /\ pc = "done"
    /\ Len(calls) = 2
    /\ Len(replies) = 2

\* C10: when an oracle call has failed, compare_segments has stopped at that
\* section: no report is returned, the records of the earlier sections are
\* gone, and the failed request is the last one made.
C10_FailureAborts ==
    \A k \in 1..Len(replies) :
        ~replies[k].ok =>
            /\ pc = "failed"
            /\ report = NoReport
            /\ comparison = EmptyDict
            /\ k = Len(calls)
            /\ calls[k].section = template.order[j + 1]

\* The oracle failed at the second section, after the first was recorded.
C10_Witness ==
    /\ pc = "failed"
    /\ j = 1
    /\ ~replies[Len(replies)].ok

\* The lines of a response that start with a prefix, whatever the case.
PrefixLines(response, prefix) ==
    {k \in 1..Len(splitlines(response)) :
        startswith(lower(splitlines(response)[k]), prefix)}
First(S) == CHOOSE k \in S : \A m \in S : k <= m
Last(S) == CHOOSE k \in S : \A m \in S : m <= k
ValueOf(response, k) == Strip(AfterColon(splitlines(response)[k]))
PercentOf(response, k) ==
    IF int(RemovePercent(ValueOf(response, k))).ok
    THEN int(RemovePercent(ValueOf(response, k))).val
    ELSE 0
RemediationOf(response, k) ==
    IF ValueOf(response, k) = "" THEN "None provided." ELSE ValueOf(response, k)

\* The record made of the k-th reply.
Answered == IF pc = "failed" THEN {} ELSE {k \in 1..Len(replies) : replies[k].ok}
RecOf(k) == comparison.map[calls[k].section]

\* C9 as stated: each field of a record made of a response is read from the
\* first line of the response with the field's prefix.
C9_FirstLineWins ==
    \A k \in Answered :
        LET r == replies[k].content
        IN  /\ PrefixLines(r, "status:") # {} =>
                   RecOf(k).status = ValueOf(r, First(PrefixLines(r, "status:")))
            /\ PrefixLines(r, "reason:") # {} =>
                   RecOf(k).analysis = ValueOf(r, First(PrefixLines(r, "reason:")))
            /\ PrefixLines(r, "remediation:") # {} =>
                   RecOf(k).remediation = RemediationOf(r, First(PrefixLines(r, "remediation:")))
            /\ PrefixLines(r, "match percentage:") # {} =>
                   RecOf(k).match_percent = PercentOf(r, First(PrefixLines(r, "match percentage:")))

\* C9 amended: each field of a record made of a response is read from the
\* last line of the response with the field's prefix; the earlier lines
\* with that prefix are ignored.
C9_LastLineWins ==
    \A k \in Answered :
        LET r == replies[k].content
        IN  /\ PrefixLines(r, "status:") # {} =>
                   RecOf(k).status = ValueOf(r, Last(PrefixLines(r, "status:")))
            /\ PrefixLines(r, "reason:") # {} =>
                   RecOf(k).analysis = ValueOf(r, Last(PrefixLines(r, "reason:")))
            /\ PrefixLines(r, "remediation:") # {} =>
                   RecOf(k).remediation = RemediationOf(r, Last(PrefixLines(r, "remediation:")))
            /\ PrefixLines(r, "match percentage:") # {} =>
                   RecOf(k).match_percent = PercentOf(r, Last(PrefixLines(r, "match percentage:")))

\* A response with two status lines of different values was recorded.
C9_Witness ==
    \E k \in Answered :
        /\ Cardinality(PrefixLines(replies[k].content, "status:")) >= 2
        /\ ValueOf(replies[k].content, First(PrefixLines(replies[k].content, "status:")))
               # ValueOf(replies[k].content, Last(PrefixLines(replies[k].content, "status:")))
        /\ pc = "done"

(***************************************************************************)
(* The end-to-end scenario (Spec).                                         *)
(***************************************************************************)
StatusAndPercent(section) ==
    <<report.map[section].status, report.map[section].match_percent>>

\* C7 as stated: with the scenario's template text and a filled text that
\* is identical for "1. Scope:" and has nothing for "2. Budget:", the report
\* has exactly two entries, "1. Scope:" Sufficient/100 and "2. Budget:"
\* Missing/0.
C7_TwoEntries ==
    (pc = "done" /\ filled_file = <<FilledNoBudget>>) =>
        /\ Keys(report) = {"1. Scope:", "2. Budget:"}
        /\ StatusAndPercent("1. Scope:") = <<"Sufficient", 100>>
        /\ StatusAndPercent("2. Budget:") = <<"Missing", 0>>

\* C7 amended: with the scenario's template text and a filled text that is
\* identical for "1. Scope:" and has no "2. Budget:" section, the report has
\* exactly three entries, in this order: "Header" (the empty text before the
\* first heading) Missing/0, "1. Scope:" Sufficient/100 and "2. Budget:"
\* Missing/0, and the oracle is not asked; with the "2. Budget:" heading
\* kept and only blanks under it, the filled section is the heading line
\* and the oracle is asked about it, once.
C7_ThreeEntries ==
    /\ (pc = "done" /\ filled_file = <<FilledNoBudget>>) =>
           /\ report.order = <<"Header", "1. Scope:", "2. Budget:">>
           /\ StatusAndPercent("Header") = <<"Missing", 0>>
           /\ StatusAndPercent("1. Scope:") = <<"Sufficient", 100>>
           /\ StatusAndPercent("2. Budget:") = <<"Missing", 0>>
           /\ calls = <<>>
    /\ (pc = "done" /\ filled_file = <<FilledBudgetHeading>>) =>
           /\ report.order = <<"Header", "1. Scope:", "2. Budget:">>
           /\ StatusAndPercent("Header") = <<"Missing", 0>>
           /\ StatusAndPercent("1. Scope:") = <<"Sufficient", 100>>
           /\ Len(calls) = 1
           /\ calls[1].section = "2. Budget:"
           /\ calls[1].filled = "2. Budget:\n   "

\* The scenario ran to its report.
C7_Witness ==
    /\ pc = "done"
    /\ filled_file = <<FilledNoBudget>>
    /\ report # NoReport
    /\ Len(report.order) = 3

====
